---- MODULE Spec2Model ----
(***************************************************************************)
(* Episode-control core of highway_env/envs/highway_env_v1.py:             *)
(* class HighwayEnvV1(AbstractEnv) with its scene populator (_reset,       *)
(* _create_road, _create_vehicles), its reward blend (_reward), the        *)
(* delayed-action stepper (elapse), and the module-level function _rewards *)
(* with the two definitions nested behind its return statement.            *)
(*                                                                         *)
(* Units: heading in multiples of pi/6, speed in m/s, time in seconds      *)
(* (policy_frequency 1), delays in half seconds.  Real numbers are exact   *)
(* rationals <<numerator, denominator>>.                                   *)
(***************************************************************************)
EXTENDS Integers, Sequences, FiniteSets, TLC

\* ---------------------------------------------------------------- bounds
MaxControlled == 2
MaxTraffic == 1
MaxTime == 2
Duration == 1
SimulationFrequency == 5
MaxDelayHalves == 1

VARIABLES
  config,               \* self.config
  road,                 \* self.road: [lanes, vehicles]
  controlled_vehicles,  \* self.controlled_vehicles
  vehicle,              \* self.vehicle: the ego, controlled_vehicles[0]
  time,                 \* self.time, the episode clock
  _delay,               \* self._delay
  _delayed_frequencies, \* self._delayed_frequencies
  pc,                   \* position inside elapse: "idle", "act", "step"
  remaining,            \* iterations left of the loop of elapse
  calls,                \* what the last operation asked for: steering reset, road.act,
                        \* road.step, a simulated control step, an evaluation
  out                   \* the last operation called and how it ended

vars == <<config, road, controlled_vehicles, vehicle, time, _delay,
          _delayed_frequencies, pc, remaining, calls, out>>

\* ------------------------------------------------------------ arithmetic
Abs(x) == IF x < 0 THEN -x ELSE x

RECURSIVE GCD(_, _)
GCD(a, b) == IF b = 0 THEN a ELSE GCD(b, a % b)

Rat(n, d) ==
  LET s == IF d < 0 THEN -1 ELSE 1
      g == GCD(Abs(n), Abs(d))
  IN  <<(s * n) \div g, (s * d) \div g>>

RInt(n) == <<n, 1>>
RAdd(a, b) == Rat(a[1] * b[2] + b[1] * a[2], a[2] * b[2])
RSub(a, b) == Rat(a[1] * b[2] - b[1] * a[2], a[2] * b[2])
RMul(a, b) == Rat(a[1] * b[1], a[2] * b[2])
RDiv(a, b) == Rat(a[1] * b[2], a[2] * b[1])
RNeg(a) == <<-a[1], a[2]>>
RLt(a, b) == a[1] * b[2] < b[1] * a[2]

\* np.clip(x, lo, hi)
Clip(x, lo, hi) == IF RLt(x, lo) THEN lo ELSE IF RLt(hi, x) THEN hi ELSE x

\* utils.lmap(v, x, y): the affine map of v from [x[1], x[2]] to [y[1], y[2]]
lmap(v, x, y) ==
  RAdd(y[1], RDiv(RMul(RSub(v, x[1]), RSub(y[2], y[1])), RSub(x[2], x[1])))

\* int(x) of Python for the rational n/d: truncation towards zero
IntTrunc(n, d) == IF n >= 0 THEN n \div d ELSE -((-n) \div d)

\* 0.5 * np.pi, in units of pi/6
HalfPi == 3

Headings == {-4, 0}

\* np.cos at the headings of the model
Cos(h) ==
  CASE Abs(h) = 0 -> RInt(1)
    [] Abs(h) = 2 -> Rat(1, 2)
    [] Abs(h) = 3 -> RInt(0)
    [] Abs(h) = 4 -> Rat(-1, 2)

\* ---------------------------------------------------------- configuration
\* the values of lanes_count the model draws from
LaneCounts == {1, 2}

\* default_config(): the keys the core reads
DefaultConfig ==
  [ duration           |-> Duration,
    collision_reward   |-> RInt(-1),
    right_lane_reward  |-> Rat(1, 10),
    high_speed_reward  |-> Rat(2, 5),
    lane_change_reward |-> Rat(-1, 20),
    reward_speed_range |-> <<RInt(10), RInt(25)>>,
    stopping_penalty   |-> Rat(-1, 2),
    reverse_reward     |-> Rat(-1, 2),
    simulation_frequency |-> SimulationFrequency ]

Configs ==
  { [ lanes_count         |-> l,
      vehicles_count      |-> n,
      controlled_vehicles |-> c,
      normalize_reward    |-> nr,
      offroad_terminal    |-> ot ] :
      l \in LaneCounts, n \in 0..MaxTraffic, c \in 1..MaxControlled,
      nr \in BOOLEAN, ot \in {TRUE} }

\* self.config.get(name, 0) for the names of the reward terms
ConfigGet(name) ==
  CASE name = "collision_reward"  -> DefaultConfig.collision_reward
    [] name = "right_lane_reward" -> DefaultConfig.right_lane_reward
    [] name = "high_speed_reward" -> DefaultConfig.high_speed_reward
    [] name = "stopping_penalty"  -> DefaultConfig.stopping_penalty
    [] OTHER -> RInt(0)

\* ---------------------------------------------------------- scene populator
\* utils.near_split(x, num_bins): remainder spread over the first bins
near_split(x, num_bins) ==
  [i \in 1..num_bins |->
     IF i <= x % num_bins THEN (x \div num_bins) + 1 ELSE x \div num_bins]

\* The ego a reset builds: Vehicle.create_random(road, speed=25, lane_id=None)
\* rebuilt as action_type.vehicle_class(road, position, heading, speed).
\* lane is the rank line 189 reads; lat is the lateral offset from the centre
\* of the lane in metres, and the ego of the model keeps to the centre.
NewEgo(lane) ==
  [ heading |-> 0, speed |-> 25, on_road |-> TRUE, crashed |-> FALSE,
    steering |-> 0, lane |-> lane, lat |-> 0 ]

\* the road of the previous episode kept, with its vehicles
_create_road_keep == [lanes |-> config.lanes_count, vehicles |-> road.vehicles]

\* _create_road: a fresh Road, with no vehicle on it
_create_road == [lanes |-> config.lanes_count, vehicles |-> <<>>]

RECURSIVE CreateGroups(_, _, _, _)
\* the loop of _create_vehicles over other_per_controlled, from group g on;
\* n counts the vehicle objects built so far
CreateGroups(g, groups, acc, n) ==
  IF g > Len(groups) THEN acc
  ELSE
    LET ego == [id |-> n + 1, kind |-> "controlled"]
        others == [k \in 1..groups[g] |-> [id |-> n + 1 + k, kind |-> "traffic"]]
    IN  CreateGroups(g + 1, groups,
                     [ controlled |-> Append(acc.controlled, ego),
                       vehicles   |-> (acc.vehicles \o <<ego>>) \o others ],
                     n + 1 + groups[g])

\* _create_vehicles on the road r: the new controlled list and road.vehicles
_create_vehicles(r) ==
  LET other_per_controlled ==
        near_split(config.vehicles_count, config.controlled_vehicles)
  IN  CreateGroups(1, other_per_controlled,
                   [controlled |-> <<>>, vehicles |-> r.vehicles], 0)

\* _reset: _create_road then _create_vehicles (rendering left out)
_reset ==
  LET r == _create_road
      p == _create_vehicles(r)
  IN  [ road |-> [r EXCEPT !.vehicles = p.vehicles],
        controlled_vehicles |-> p.controlled ]

NoCalls == <<>>

\* ------------------------------------------------------------------- Init
\* AbstractEnv.__init__ ends with reset(); then lines 83-87 run
Init ==
  /\ config \in Configs
  /\ \E lane \in 0..1 :
       /\ lane < config.lanes_count
       /\ vehicle = NewEgo(lane)
  /\ LET p == _create_vehicles([lanes |-> config.lanes_count, vehicles |-> <<>>])
     IN  /\ road = [lanes |-> config.lanes_count, vehicles |-> p.vehicles]
         /\ controlled_vehicles = p.controlled
  /\ time = 0
  /\ _delay = RInt(0)
  /\ _delayed_frequencies = 0
  /\ pc = "idle"
  /\ remaining = 0
  /\ calls = NoCalls
  /\ out = [op |-> "reset", status |-> "ok"]

\* reset() of the environment: the clock restarts and _reset repopulates
Reset ==
  /\ pc = "idle"
  /\ time' = 0
  /\ road' = _reset.road
  /\ controlled_vehicles' = _reset.controlled_vehicles
  /\ \E lane \in 0..(config.lanes_count - 1) : vehicle' = NewEgo(lane)
  /\ calls' = NoCalls
  /\ out' = [op |-> "reset", status |-> "ok"]
  /\ UNCHANGED <<config, _delay, _delayed_frequencies, pc, remaining>>

\* ------------------------------------------------------------ reward terms
TermNames ==
  { "collision_reward", "right_lane_reward", "high_speed_reward",
    "on_road_reward", "heading_penalty", "lane_centering", "stopping_penalty" }

\* float(b) of a flag
Float(b) == IF b THEN RInt(1) ELSE RInt(0)

\* half the width of vehicle.lane: StraightLane.DEFAULT_WIDTH is 4 metres
LaneWidth == 4

\* the ramp below 5 m/s taken above it instead
SpeedReward_RampInverted(forward_speed, scaled_speed) ==
  IF ~RLt(forward_speed, RInt(5)) THEN RDiv(forward_speed, RInt(5))
  ELSE Clip(scaled_speed, RInt(0), RInt(1))

\* speed_reward: the clipped scaled speed, replaced by a ramp below 5 m/s
SpeedReward(forward_speed, scaled_speed) ==
  IF RLt(forward_speed, RInt(5)) THEN RDiv(forward_speed, RInt(5))
  ELSE Clip(scaled_speed, RInt(0), RInt(1))

\* the function _rewards of the module, applied to the ego v at clock t:
\* the ego as the call leaves it (crashed may be set) and the term mapping
_rewards(v, t) ==
  LET neighbours == road.lanes
      lane == v.lane
      forward_speed == RMul(RInt(v.speed), Cos(v.heading))
      scaled_speed ==
        lmap(forward_speed, DefaultConfig.reward_speed_range, <<RInt(0), RInt(1)>>)
      heading_penalty == RNeg(RDiv(RInt(Abs(v.heading)), RInt(HalfPi)))
      speed_reward == SpeedReward(forward_speed, scaled_speed)
      lane_centering ==
        RNeg(RDiv(RInt(Abs(v.lat)), RDiv(RInt(LaneWidth), RInt(2))))
      crashed ==
        \/ v.crashed
        \/ Abs(v.heading) > HalfPi
        \/ (RLt(scaled_speed, Rat(-1, 10)) /\ t > 1)
      maxn == IF neighbours - 1 > 1 THEN neighbours - 1 ELSE 1
  IN  [ status  |-> "ok",
        vehicle |-> [v EXCEPT !.crashed = crashed],
        value   |->
          [ collision_reward  |-> Float(crashed),
            right_lane_reward |-> Rat(lane, maxn),
            high_speed_reward |-> speed_reward,
            on_road_reward    |-> Float(v.on_road),
            heading_penalty   |-> heading_penalty,
            lane_centering    |-> RMul(lane_centering, Rat(1, 10)),
            stopping_penalty  |->
              IF RLt(forward_speed, RInt(2)) THEN Rat(-1, 2) ELSE RInt(0) ] ]

\* _is_terminated, as written behind the return of _rewards
_is_terminated(v) ==
  [ status |-> "ok", vehicle |-> v,
    value  |-> v.crashed \/ (config.offroad_terminal /\ ~v.on_road) ]

\* _is_truncated, as written behind the return of _rewards
_is_truncated(v, t) ==
  [status |-> "ok", vehicle |-> v, value |-> t >= DefaultConfig.duration]

\* ------------------------------------------------------- method resolution
\* the names the body of class HighwayEnvV1 binds
ClassBody ==
  { "default_config", "__init__", "elapse", "_reset", "_create_road",
    "render", "_create_vehicles", "_reward" }

\* the names the module binds beside the class; the two definitions nested in
\* _rewards follow its return statement and are bound nowhere
ModuleLevel == {"_rewards"}

\* AbstractEnv leaves _reward, _rewards, _is_terminated and _is_truncated to
\* its subclasses: each raises NotImplementedError
AbstractHook(v) == [status |-> "NotImplementedError", vehicle |-> v, value |-> "none"]

\* self._rewards(action)
Self_rewards(v, t) ==
  IF "_rewards" \in ClassBody THEN _rewards(v, t) ELSE AbstractHook(v)

\* self._is_terminated()
Self_is_terminated(v) ==
  IF "_is_terminated" \in ClassBody THEN _is_terminated(v) ELSE AbstractHook(v)

\* self._is_truncated()
Self_is_truncated(v, t) ==
  IF "_is_truncated" \in ClassBody THEN _is_truncated(v, t) ELSE AbstractHook(v)

RECURSIVE SumOver(_, _)
\* sum(self.config.get(name, 0) * reward for name, reward in rewards.items())
SumOver(names, rewards) ==
  IF names = {} THEN RInt(0)
  ELSE LET name == CHOOSE x \in names : TRUE
       IN  RAdd(RMul(ConfigGet(name), rewards[name]),
                SumOver(names \ {name}, rewards))

\* the blend without its last line, the product with on_road_reward
Blend_NoOnRoad(rewards) ==
  LET reward == SumOver(TermNames, rewards)
  IN  IF config.normalize_reward
      THEN lmap(reward,
                << DefaultConfig.collision_reward,
                   RAdd(DefaultConfig.high_speed_reward,
                        DefaultConfig.right_lane_reward) >>,
                <<RInt(0), RInt(1)>>)
      ELSE reward

\* the blend of HighwayEnvV1._reward over a term mapping
Blend(rewards) ==
  LET reward == SumOver(TermNames, rewards)
      mapped ==
        IF config.normalize_reward
        THEN lmap(reward,
                  << DefaultConfig.collision_reward,
                     RAdd(DefaultConfig.high_speed_reward,
                          DefaultConfig.right_lane_reward) >>,
                  <<RInt(0), RInt(1)>>)
        ELSE reward
  IN  RMul(mapped, rewards["on_road_reward"])

\* HighwayEnvV1._reward(action): an exception of self._rewards passes through
_reward(v, t) ==
  LET r == Self_rewards(v, t)
  IN  IF r.status # "ok" THEN r
      ELSE [status |-> "ok", vehicle |-> r.vehicle, value |-> Blend(r.value)]

\* ---------------------------------------------------------------- physics
Speeds == {0, 15, 25}

\* road.step(dt) as the core sees it on the ego: the integrator and the
\* collision check move one attribute of the ego; a crash is never undone
RoadStep(v) ==
  {v}
  \cup {[v EXCEPT !.heading = h] : h \in Headings}
  \cup {[v EXCEPT !.speed = s] : s \in Speeds}
  \cup {[v EXCEPT !.on_road = b] : b \in BOOLEAN}
  \cup {[v EXCEPT !.crashed = TRUE]}
  \cup {[v EXCEPT !.lane = l] : l \in 0..(road.lanes - 1)}

\* ------------------------------------------------------------- operations
\* step(action) of the environment: the clock advances by 1/policy_frequency,
\* the action is applied and the road simulated, then _reward,
\* _is_terminated and _is_truncated are evaluated in that order
Step ==
  /\ pc = "idle"
  /\ time < MaxTime
  /\ time' = time + 1
  /\ \E steering \in {0, 1} :
     \E moved \in RoadStep([vehicle EXCEPT !.steering = steering]) :
       LET rw == _reward(moved, time')
           tm == Self_is_terminated(rw.vehicle)
           tr == Self_is_truncated(rw.vehicle, time')
       IN  /\ vehicle' = rw.vehicle
           /\ out' =
                IF rw.status # "ok" THEN [op |-> "step", status |-> rw.status]
                ELSE IF tm.status # "ok" THEN [op |-> "step", status |-> tm.status]
                ELSE IF tr.status # "ok" THEN [op |-> "step", status |-> tr.status]
                ELSE [ op |-> "step", status |-> "ok", reward |-> rw.value,
                       terminated |-> tm.value, truncated |-> tr.value ]
  /\ calls' = <<"simulate", "evaluate">>
  /\ UNCHANGED <<config, road, controlled_vehicles, _delay,
                 _delayed_frequencies, pc, remaining>>

\* a call of one of the four evaluation methods on the instance
Evaluate(op, r) ==
  /\ pc = "idle"
  /\ vehicle' = r.vehicle
  /\ out' = IF r.status = "ok"
            THEN [op |-> op, status |-> "ok", value |-> r.value]
            ELSE [op |-> op, status |-> r.status]
  /\ calls' = <<"evaluate">>
  /\ UNCHANGED <<config, road, controlled_vehicles, time, _delay,
                 _delayed_frequencies, pc, remaining>>

CallReward == Evaluate("_reward", _reward(vehicle, time))
CallRewards == Evaluate("_rewards", Self_rewards(vehicle, time))
CallIsTerminated == Evaluate("_is_terminated", Self_is_terminated(vehicle))
CallIsTruncated == Evaluate("_is_truncated", Self_is_truncated(vehicle, time))

\* _rewards(env, action): the function of the module called as a function
CallModuleRewards ==
  /\ "_rewards" \in ModuleLevel
  /\ Evaluate("module._rewards", _rewards(vehicle, time))

\* ------------------------------------------------------------------ elapse
\* the tick count rounded up instead of truncated
DelayedFrequencies_ceil(h) == (h * DefaultConfig.simulation_frequency + 1) \div 2

\* int(self._delay * simulation_frequency) for a delay of h half seconds
DelayedFrequencies(h) == IntTrunc(h * DefaultConfig.simulation_frequency, 2)

\* elapse(delay, reset_steering) up to its loop
ElapseCall ==
  /\ pc = "idle"
  /\ \E h \in 0..MaxDelayHalves, reset_steering \in BOOLEAN :
       /\ _delay' = Rat(h, 2)
       /\ vehicle' = IF reset_steering THEN [vehicle EXCEPT !.steering = 0]
                     ELSE vehicle
       /\ calls' = IF reset_steering THEN <<"steering">> ELSE NoCalls
       /\ _delayed_frequencies' = DelayedFrequencies(h)
       /\ remaining' = IF DelayedFrequencies(h) > 0 THEN DelayedFrequencies(h) ELSE 0
       /\ pc' = IF DelayedFrequencies(h) > 0 THEN "act" ELSE "idle"
       /\ out' = [op |-> "elapse", status |-> "ok", reset_steering |-> reset_steering]
  /\ UNCHANGED <<config, road, controlled_vehicles, time>>

\* self.unwrapped.road.act()
ElapseRoadAct ==
  /\ pc = "act"
  /\ calls' = Append(calls, "act")
  /\ pc' = "step"
  /\ UNCHANGED <<config, road, controlled_vehicles, vehicle, time, _delay,
                 _delayed_frequencies, remaining, out>>

\* a tick of elapse that also advances the episode clock
ElapseRoadStep_clock ==
  /\ pc = "step"
  /\ vehicle' \in RoadStep(vehicle)
  /\ calls' = Append(calls, "step")
  /\ remaining' = remaining - 1
  /\ pc' = IF remaining - 1 > 0 THEN "act" ELSE "idle"
  /\ time' = time + 1
  /\ UNCHANGED <<config, road, controlled_vehicles, _delay,
                 _delayed_frequencies, out>>

\* self.unwrapped.road.step(1 / simulation_frequency), and the loop test
ElapseRoadStep ==
  /\ pc = "step"
  /\ vehicle' \in RoadStep(vehicle)
  /\ calls' = Append(calls, "step")
  /\ remaining' = remaining - 1
  /\ pc' = IF remaining - 1 > 0 THEN "act" ELSE "idle"
  /\ UNCHANGED <<config, road, controlled_vehicles, time, _delay,
                 _delayed_frequencies, out>>

Next ==
  \/ Reset
  \/ Step
  \/ CallReward
  \/ CallRewards
  \/ CallIsTerminated
  \/ CallIsTruncated
  \/ CallModuleRewards
  \/ ElapseCall
  \/ ElapseRoadAct
  \/ ElapseRoadStep

Spec == Init /\ [][Next]_vars

\* ================================================================= claims
EvaluationOps == {"_reward", "_rewards", "_is_terminated", "_is_truncated"}

\* the weighted sum of the seven named terms, a name without a configured
\* weight weighing 0
WeightedSum(m) ==
  RAdd(RMul(DefaultConfig.collision_reward, m["collision_reward"]),
  RAdd(RMul(DefaultConfig.right_lane_reward, m["right_lane_reward"]),
  RAdd(RMul(DefaultConfig.high_speed_reward, m["high_speed_reward"]),
  RAdd(RMul(RInt(0), m["on_road_reward"]),
  RAdd(RMul(RInt(0), m["heading_penalty"]),
  RAdd(RMul(RInt(0), m["lane_centering"]),
       RMul(DefaultConfig.stopping_penalty, m["stopping_penalty"])))))))

\* x mapped affinely from [collision weight, high_speed + right_lane weight]
\* to [0, 1]
Normalized(x) ==
  RDiv(RSub(x, DefaultConfig.collision_reward),
       RSub(RAdd(DefaultConfig.high_speed_reward, DefaultConfig.right_lane_reward),
            DefaultConfig.collision_reward))

C2_OffRoadRewardZero ==
  (out.op = "_reward" /\ ~vehicle.on_road) =>
    (out.status = "ok" /\ out.value = RInt(0))

\* C3: when the reward terms are evaluated with |heading| > pi/2, the ego is
\* flagged crashed by that evaluation.
C3_HeadingFlagsCrash ==
  (out.op \in {"step", "_reward", "_rewards"} /\ Abs(vehicle.heading) > HalfPi) =>
    vehicle.crashed

\* C4: every control step yields Terminated, true exactly when the ego is
\* crashed once the reward composer has run, or off the road with
\* offroad_terminal set.
C4_TerminatedInStep ==
  out.op = "step" =>
    /\ out.status = "ok"
    /\ out.terminated =
         (vehicle.crashed \/ (config.offroad_terminal /\ ~vehicle.on_road))

\* C5: is_truncated() returns true exactly when the clock has reached the
\* configured duration.
C5_TruncatedIffDuration ==
  out.op = "_is_truncated" =>
    (out.status = "ok" /\ out.value = (time >= DefaultConfig.duration))

\* ------------------------------------------------------------------- C6
\* the places of the controlled vehicles on the road, in order
ControlledAt ==
  SelectSeq([i \in 1..Len(road.vehicles) |-> i],
            LAMBDA i : road.vehicles[i].kind = "controlled")

\* the traffic vehicles that follow the k-th controlled vehicle
GroupSize(k) ==
  (IF k < Len(ControlledAt) THEN ControlledAt[k + 1] ELSE Len(road.vehicles) + 1)
    - ControlledAt[k] - 1

FloorTicks == (_delay[1] * SimulationFrequency) \div _delay[2]

\* C7: elapse runs exactly floor(delay * simulation_frequency) ticks, each
\* road.act then road.step, after one steering reset if and only if it was
\* asked for, and asks for no evaluation.
C7_ElapseTicks ==
  out.op = "elapse" =>
    LET pre == IF out.reset_steering THEN 1 ELSE 0
        k == Len(calls) - pre
    IN  /\ k >= 0
        /\ k <= 2 * FloorTicks
        /\ \A i \in 1..Len(calls) :
             calls[i] = IF i <= pre THEN "steering"
                        ELSE IF (i - pre) % 2 = 1 THEN "act" ELSE "step"
        /\ (pc = "idle") = (k = 2 * FloorTicks)
        /\ (pc = "step") = (k % 2 = 1)
        /\ _delayed_frequencies = FloorTicks
        /\ out.reset_steering => vehicle.steering = 0

\* an elapse of half a second at a frequency that makes the tick count
\* fractional has returned, with the steering reset
C7_Witness ==
  /\ out.op = "elapse"
  /\ pc = "idle"
  /\ out.reset_steering
  /\ _delay = Rat(1, 2)
  /\ 2 * FloorTicks < SimulationFrequency
  /\ FloorTicks >= 2
  /\ Len(calls) = 2 * FloorTicks + 1

\* ------------------------------------------------------------------- C8
C8_Example ==
  /\ out.op = "module._rewards"
  /\ config.lanes_count = 1
  /\ config.normalize_reward
  /\ vehicle.speed = 15
  /\ vehicle.heading = 0
  /\ vehicle.lat = 0
  /\ vehicle.on_road
  /\ ~vehicle.crashed

C8_Terms ==
  [ collision_reward  |-> RInt(0),
    right_lane_reward |-> RInt(0),
    high_speed_reward |-> Rat(1, 3),
    on_road_reward    |-> RInt(1),
    heading_penalty   |-> RInt(0),
    lane_centering    |-> RInt(0),
    stopping_penalty  |-> RInt(0) ]

\* |a - b| <= eps
Near(a, b, eps) == ~RLt(eps, RSub(a, b)) /\ ~RLt(eps, RSub(b, a))

C9_EvaluationsReturn == out.op \in EvaluationOps => out.status = "ok"

====
